---- MODULE Spec2Model ----
(***************************************************************************)
(* Model of update_event_map_headers.py: the dispatch between the header   *)
(* normalisation of PanDDA 1 event maps and the recalculation of PanDDA 2  *)
(* event maps from the mean map, the observed map and the 1-BDC value.     *)
(*                                                                         *)
(* Voxel values are IEEE floats abstracted as exact rationals plus the     *)
(* three special values NaN, +inf and -inf; rounding is not modelled.      *)
(* A BDC value is a decimal with three places, held as its number of       *)
(* thousandths (300 is 0.3).                                               *)
(***************************************************************************)
EXTENDS Integers, Sequences, FiniteSets, TLC

VARIABLES
    marker,           \* <root>/pandda.done exists
    eventMaps,        \* the *.ccp4 entries under processed_datasets/*/ (glob order)
    initialMaps,      \* eventMaps as the run found them
    configExcluded,   \* the "excluded_files" the user's configuration lists
    table,            \* rows of analyses/pandda_inspect_events.csv
    datasets,         \* dtag -> the mean map and the xmap of that dataset directory
    outputs,          \* path -> event map written by recalculate_event_map
    pc,               \* position of the process
    pandda,           \* dispatch's local: the directory type
    event_map_files,  \* update_event_map_spacegroups' local: the enumerated files
    cur,              \* loop position: index into event_map_files or into table
    ccp4,             \* update_event_map_spacegroup's local: the opened map
    log,              \* logger.error diagnostics emitted, by file
    writes,           \* files written by update_event_map_spacegroup, in order
    results,          \* rows handed to recalculate_event_map, with their outcome
    exc               \* the exception that ended the process, "" when none

vars == <<marker, eventMaps, initialMaps, configExcluded, table, datasets, outputs, pc, pandda,
          event_map_files, cur, ccp4, log, writes, results, exc>>

-----------------------------------------------------------------------------
(* Bounds *)

\* Number of *.ccp4 entries found under processed_datasets/*/.
MaxFiles == 2

\* Number of rows of the results table.
MaxRows == 2

-----------------------------------------------------------------------------
(* Float values *)

Abs(n) == IF n < 0 THEN -n ELSE n

RECURSIVE GCD(_, _)
GCD(a, b) == IF b = 0 THEN a ELSE GCD(b, a % b)

\* The rational n/d in lowest terms with a positive denominator.
Fin(n, d) ==
    LET s == IF d < 0 THEN -1 ELSE 1
        g == GCD(Abs(n), Abs(d))
    IN  [k |-> "fin", n |-> (s * n) \div g, d |-> (s * d) \div g]

NaN  == [k |-> "nan", n |-> 0, d |-> 1]
PInf == [k |-> "inf", n |-> 1, d |-> 1]
NInf == [k |-> "inf", n |-> -1, d |-> 1]
Zero == Fin(0, 1)
One  == Fin(1, 1)

Sign(a) == IF a.n > 0 THEN 1 ELSE IF a.n < 0 THEN -1 ELSE 0
InfOf(s) == IF s > 0 THEN PInf ELSE NInf

isnan(a) == a.k = "nan"
isfinite(a) == a.k = "fin"

\* a - b
FSub(a, b) ==
    CASE a.k = "nan" \/ b.k = "nan" -> NaN
      [] a.k = "inf" /\ b.k = "inf" -> IF a.n = b.n THEN NaN ELSE a
      [] a.k = "inf" -> a
      [] b.k = "inf" -> InfOf(-b.n)
      [] OTHER -> Fin(a.n * b.d - b.n * a.d, a.d * b.d)

\* a * b
FMul(a, b) ==
    CASE a.k = "nan" \/ b.k = "nan" -> NaN
      [] a.k = "inf" \/ b.k = "inf" ->
            IF Sign(a) * Sign(b) = 0 THEN NaN ELSE InfOf(Sign(a) * Sign(b))
      [] OTHER -> Fin(a.n * b.n, a.d * b.d)

\* a / b with numpy's semantics: a division by zero gives inf or nan (and a
\* RuntimeWarning), never an exception.
FDiv(a, b) ==
    CASE a.k = "nan" \/ b.k = "nan" -> NaN
      [] a.k = "inf" /\ b.k = "inf" -> NaN
      [] a.k = "inf" -> InfOf(IF Sign(b) < 0 THEN -a.n ELSE a.n)
      [] b.k = "inf" -> Zero
      [] b.n = 0 -> IF a.n = 0 THEN NaN ELSE InfOf(Sign(a))
      [] OTHER -> Fin(a.n * b.d, a.d * b.n)

\* The float of a BDC value given in thousandths.
BdcValue(t) == Fin(t, 1000)

-----------------------------------------------------------------------------
(* Grids and arrays *)

P1 == "P 1"

\* The voxel indices of a grid of shape <<nu, nv, nw>>.
Indices(shape) ==
    (0 .. shape[1] - 1) \X (0 .. shape[2] - 1) \X (0 .. shape[3] - 1)

\* Ccp4Map.setup(default_value): the grid covers the whole unit cell; the points
\* the file does not store take the default value.
setup(m, default_value) ==
    [m EXCEPT !.data = [i \in Indices(m.shape) |->
                            IF i \in DOMAIN m.data THEN m.data[i] ELSE default_value]]

\* np.array(grid, copy=False): the grid's values as an array of shape (nu, nv, nw).
AsArray(m) == [shape |-> m.shape, v |-> m.data]

\* numpy broadcasting of two shapes: every axis agrees or one side has length 1.
BroadcastOk(s1, s2) ==
    \A d \in 1..3 : s1[d] = s2[d] \/ s1[d] = 1 \/ s2[d] = 1

BroadcastShape(s1, s2) ==
    << IF s1[1] = 1 THEN s2[1] ELSE s1[1],
       IF s1[2] = 1 THEN s2[2] ELSE s1[2],
       IF s1[3] = 1 THEN s2[3] ELSE s1[3] >>

\* The element of array a that a broadcast to a larger shape reads at index i.
At(a, i) ==
    a.v[<< IF a.shape[1] = 1 THEN 0 ELSE i[1],
           IF a.shape[2] = 1 THEN 0 ELSE i[2],
           IF a.shape[3] = 1 THEN 0 ELSE i[3] >>]

\* scalar * array
ScalarMul(s, a) ==
    [shape |-> a.shape, v |-> [i \in Indices(a.shape) |-> FMul(s, a.v[i])]]

\* array - array, broadcast (the caller has checked BroadcastOk)
ArraySub(a, b) ==
    LET sh == BroadcastShape(a.shape, b.shape)
    IN  [shape |-> sh, v |-> [i \in Indices(sh) |-> FSub(At(a, i), At(b, i))]]

\* array / scalar
ArrayDiv(a, s) ==
    [shape |-> a.shape, v |-> [i \in Indices(a.shape) |-> FDiv(a.v[i], s)]]

\* dest[:, :, :] = src[:, :, :] is allowed when src broadcasts TO dest's shape.
AssignOk(destShape, srcShape) ==
    \A d \in 1..3 : srcShape[d] = destShape[d] \/ srcShape[d] = 1

-----------------------------------------------------------------------------
(* Names *)

\* The float formatted as f'{bdc:.2f}' (rounded half to even).
PyStrFloat_TwoDecimals(t) ==
    LET q == t \div 10
        r == t % 10
        h == IF r > 5 \/ (r = 5 /\ q % 2 = 1) THEN q + 1 ELSE q
    IN  ToString(h \div 100) \o "." \o ToString((h \div 10) % 10) \o ToString(h % 10)

\* Python's str() of a non-negative float with at most three decimals: the
\* shortest decimal that reads back as the float, with at least one decimal.
PyStrFloat(t) ==
    LET ip == t \div 1000
        fr == t % 1000
        d1 == ToString(fr \div 100)
        d2 == ToString((fr \div 10) % 10)
        d3 == ToString(fr % 10)
    IN  ToString(ip) \o "." \o
            (IF fr % 100 = 0 THEN d1
             ELSE IF fr % 10 = 0 THEN d1 \o d2
             ELSE d1 \o d2 \o d3)

\* dtag_dir / f'{dtag}-event_{event_idx}_1-BDC_{bdc}_map.native.ccp4'
EventMapPath(dtag, bdc, event_idx) ==
    "processed_datasets/" \o dtag \o "/" \o dtag \o "-event_" \o ToString(event_idx)
        \o "_1-BDC_" \o PyStrFloat(bdc) \o "_map.native.ccp4"

\* Path.resolve(): the absolute path with symlinks followed. A path is
\* <<spelling, i>>: file i spelled relative, absolute or through a symlink.
Resolve(p) == <<"abs", p[2]>>

\* dataset_dir.glob("*event*.ccp4") on a name given as its pieces.
MatchesEventGlob(name) ==
    /\ Len(name) >= 2
    /\ name[Len(name)] = ".ccp4"
    /\ \E j \in 1 .. Len(name) - 1 : name[j] = "event"

-----------------------------------------------------------------------------
(* Map files *)

\* gemmi.read_ccp4_map raises for a missing or corrupted file.
CanRead(f) == f.exists /\ f.readable

NoData == [i \in {} |-> Zero]

Absent ==
    [exists |-> FALSE, readable |-> FALSE, shape |-> <<1, 1, 1>>, sg |-> "",
     cell |-> "", data |-> NoData, mode |-> 2]

\* A readable map file storing every point of the cell but those in `missing`.
MkMap(shape, sg, cell, seed, missing) ==
    [exists |-> TRUE, readable |-> TRUE, shape |-> shape, sg |-> sg, cell |-> cell,
     data |-> [i \in Indices(shape) \ missing |->
                  Fin(seed * (i[1] + 2 * i[2] + 4 * i[3]) - 1, 1)],
     mode |-> 2]

Corrupt(f) == [f EXCEPT !.readable = FALSE]

-----------------------------------------------------------------------------
(* Header normalisation: update_event_map_spacegroup and its callers *)

Unbound == [bound |-> FALSE, grid |-> Absent]

\* arr[np.isnan(arr)] = 0.0
ReplaceNaN(data) == [i \in DOMAIN data |-> IF isnan(data[i]) THEN Zero ELSE data[i]]

\* Lines 57-66: spacegroup P 1, setup with NaN, NaN to 0.0, header in mode 2.
NormalizedGrid(g) ==
    LET p1 == [g EXCEPT !.sg = P1]
        full == setup(p1, NaN)
    IN  [full EXCEPT !.data = ReplaceNaN(full.data), !.mode = 2]

\* The path glob yields for entry i of processed_datasets/*/.
GlobPath(i) == <<"rel", i>>

\* get_event_map_from_dataset_dir over every dataset directory, then the filter
\* on the resolved path.
get_event_map_files(entries, excluded_files) ==
    SelectSeq([i \in 1 .. Len(entries) |-> GlobPath(i)],
              LAMBDA p : /\ MatchesEventGlob(entries[p[2]].name)
                         /\ Resolve(p) \notin excluded_files)

\* update_event_map_spacegroups builds its options itself: the directory it is
\* given and an empty "excluded_files".
OptionsExcludedFiles == {}

\* A loop that steps over a file.
NextFile_Skips(i) == i + 2

\* The index of the next file of the loop.
NextFile(i) == i + 1

-----------------------------------------------------------------------------
(* Event map recalculation: recalculate_event_map *)

\* The formula with bdc where 1-bdc belongs.
EventMapArray_WrongWeight(xmap_array, mean_map_array, b) ==
    ArrayDiv(ArraySub(xmap_array, ScalarMul(b, mean_map_array)), b)

\* (xmap_array - ((1-bdc) * mean_map_array)) / (bdc)
EventMapArray(xmap_array, mean_map_array, b) ==
    ArrayDiv(ArraySub(xmap_array, ScalarMul(FSub(One, b), mean_map_array)), b)

Raise(e) == [ok |-> FALSE, exc |-> e, path |-> "", file |-> Absent]

recalculate_event_map(dtag_dir, dtag, bdc, event_idx) ==
    IF ~CanRead(dtag_dir.mean) \/ ~CanRead(dtag_dir.xmap) THEN Raise("RuntimeError")
    ELSE
      LET mean_map_grid == setup(dtag_dir.mean, Zero)
          xmap_grid == setup(dtag_dir.xmap, Zero)
          mean_map_array == AsArray(mean_map_grid)
          xmap_array == AsArray(xmap_grid)
      IN  IF ~BroadcastOk(xmap_array.shape, mean_map_array.shape) THEN Raise("ValueError")
          ELSE
            LET event_map_array ==
                    EventMapArray(xmap_array, mean_map_array, BdcValue(bdc))
            IN  IF ~AssignOk(xmap_grid.shape, event_map_array.shape)
                THEN Raise("ValueError")
                ELSE [ok |-> TRUE, exc |-> "",
                      path |-> EventMapPath(dtag, bdc, event_idx),
                      file |-> [exists |-> TRUE, readable |-> TRUE,
                                shape |-> xmap_grid.shape, sg |-> P1,
                                cell |-> xmap_grid.cell,
                                data |-> [i \in Indices(xmap_grid.shape) |->
                                             At(event_map_array, i)],
                                mode |-> 2]]

\* The index of the next row of the loop.
NextRow(i) == i + 1

-----------------------------------------------------------------------------
(* Dispatch *)

\* The two types the wrong way round.
_get_pandda_dir_type_Swapped(done_exists) ==
    IF done_exists THEN "pandda_2" ELSE "pandda_1"

_get_pandda_dir_type(done_exists) == IF done_exists THEN "pandda_1" ELSE "pandda_2"

-----------------------------------------------------------------------------
(* Inputs *)

EventName == <<"dtag-", "event", "_1_1-BDC_0.3_map.native", ".ccp4">>
XmapName  == <<"xmap", ".ccp4">>

Square == <<2, 2, 1>>

\* An event map in P 21 that stores part of the cell, one stored value NaN.
PartialEventMap ==
    [MkMap(Square, "P 21", "cellA", 1, {<<1, 0, 0>>, <<1, 1, 0>>})
        EXCEPT !.data[<<0, 1, 0>>] = NaN, !.data[<<0, 0, 0>>] = Fin(3, 2)]

\* An event map in P 1 whose stored values include +inf and -inf.
InfiniteEventMap ==
    [MkMap(Square, P1, "cellA", 1, {})
        EXCEPT !.data[<<0, 1, 0>>] = PInf, !.data[<<1, 0, 0>>] = NInf]

\* An event map that is already in P 1, complete and finite.
CleanEventMap == MkMap(Square, P1, "cellA", 2, {})

EntryKinds ==
    { [name |-> EventName, file |-> PartialEventMap],
      [name |-> EventName, file |-> InfiniteEventMap],
      [name |-> EventName, file |-> CleanEventMap],
      [name |-> EventName, file |-> Corrupt(CleanEventMap)],
      [name |-> XmapName,  file |-> CleanEventMap] }

EntryLists(kinds) == UNION { [1 .. n -> kinds] : n \in 0 .. MaxFiles }

\* The ways a configuration can spell file i: odd files by their absolute path,
\* even files through a symlink.
Spelling(i) == IF i % 2 = 1 THEN <<"abs", i>> ELSE <<"link", i>>
ExcludedChoices(entries) == SUBSET { Spelling(i) : i \in 1 .. Len(entries) }

Dtags == {"D1", "D2"}

GoodMean == MkMap(Square, "P 21", "cellB", 1, {})
GoodXmap == MkMap(Square, "P 21", "cellA", 2, {})

DatasetKinds ==
    { [mean |-> GoodMean, xmap |-> GoodXmap],
      [mean |-> GoodMean, xmap |-> MkMap(Square, P1, "cellA", 3, {<<1, 1, 0>>})],
      [mean |-> Absent, xmap |-> GoodXmap],
      [mean |-> GoodMean, xmap |-> Absent],
      [mean |-> Corrupt(GoodMean), xmap |-> GoodXmap],
      [mean |-> MkMap(<<1, 2, 1>>, "P 21", "cellB", 1, {}), xmap |-> GoodXmap],
      [mean |-> GoodMean, xmap |-> MkMap(<<1, 2, 1>>, "P 21", "cellA", 2, {})],
      [mean |-> MkMap(<<3, 2, 1>>, "P 21", "cellB", 1, {}), xmap |-> GoodXmap] }

FewDatasetKinds ==
    { [mean |-> GoodMean, xmap |-> GoodXmap], [mean |-> Absent, xmap |-> Absent] }

\* Rows of the table: dtag, 1-BDC in thousandths, event_idx.
Rows ==
    { [dtag |-> "D1", bdc |-> b, event_idx |-> 1] : b \in {0, 300, 304, 1000} }
    \cup { [dtag |-> "D2", bdc |-> 300, event_idx |-> e] : e \in {1, 2} }

Tables(rows) == UNION { [1 .. n -> rows] : n \in 0 .. MaxRows }

LegacyInputs ==
    /\ marker = TRUE
    /\ eventMaps \in EntryLists(EntryKinds)
    /\ configExcluded \in ExcludedChoices(eventMaps)
    /\ table \in Tables({[dtag |-> "D1", bdc |-> 300, event_idx |-> 1]})
    /\ datasets \in [Dtags -> {[mean |-> GoodMean, xmap |-> GoodXmap]}]

CurrentInputs ==
    /\ marker = FALSE
    /\ eventMaps \in EntryLists({[name |-> EventName, file |-> PartialEventMap]})
    /\ configExcluded = {}
    /\ table \in Tables(Rows)
    /\ datasets \in { [d \in Dtags |-> IF d = "D1" THEN k1 ELSE k2] :
                        k1 \in DatasetKinds, k2 \in FewDatasetKinds }

Init ==
    /\ LegacyInputs \/ CurrentInputs
    /\ initialMaps = eventMaps
    /\ outputs = [p \in {} |-> Absent]
    /\ pc = "dispatch"
    /\ pandda = ""
    /\ event_map_files = <<>>
    /\ cur = 0
    /\ ccp4 = Unbound
    /\ log = <<>>
    /\ writes = <<>>
    /\ results = <<>>
    /\ exc = ""

-----------------------------------------------------------------------------
(* Actions *)

inputs == <<marker, initialMaps, configExcluded, table, datasets>>

\* dispatch, lines 163-176.
Dispatch ==
    /\ pc = "dispatch"
    /\ pandda' = _get_pandda_dir_type(marker)
    /\ IF pandda' = "pandda_1"
       THEN pc' = "update_event_map_spacegroups" /\ exc' = exc
       ELSE IF pandda' = "pandda_2"
       THEN pc' = "recalculate_event_maps" /\ exc' = exc
       ELSE pc' = "crashed" /\ exc' = "Exception"
    /\ UNCHANGED <<inputs, eventMaps, outputs, event_map_files, cur, ccp4, log,
                   writes, results>>

\* update_event_map_spacegroups, lines 105-135: the options, the resolved
\* exclusions and the enumeration.
Enumerate ==
    /\ pc = "update_event_map_spacegroups"
    /\ LET exclude == { Resolve(p) : p \in OptionsExcludedFiles }
       IN  event_map_files' = get_event_map_files(eventMaps, exclude)
    /\ cur' = 1
    /\ pc' = "open"
    /\ UNCHANGED <<inputs, eventMaps, outputs, pandda, ccp4, log, writes, results, exc>>

\* update_event_map_spacegroup, lines 41-55: the map is read; a failure is
\* logged and control leaves the except block with ccp4 unassigned.
OpenMap ==
    /\ pc = "open"
    /\ cur <= Len(event_map_files)
    /\ LET f == eventMaps[event_map_files[cur][2]].file
       IN  IF CanRead(f)
           THEN ccp4' = [bound |-> TRUE, grid |-> f] /\ log' = log
           ELSE ccp4' = Unbound /\ log' = Append(log, event_map_files[cur])
    /\ pc' = "transform"
    /\ UNCHANGED <<inputs, eventMaps, outputs, pandda, event_map_files, cur, writes,
                   results, exc>>

\* Lines 57-66 on an opened map.
TransformMap ==
    /\ pc = "transform"
    /\ ccp4.bound
    /\ ccp4' = [ccp4 EXCEPT !.grid = NormalizedGrid(ccp4.grid)]
    /\ pc' = "write"
    /\ UNCHANGED <<inputs, eventMaps, outputs, pandda, event_map_files, cur, log,
                   writes, results, exc>>

\* Line 57 after a failed read: ccp4 is an unassigned local, the reference
\* raises UnboundLocalError, which no caller catches.
TransformUnbound ==
    /\ pc = "transform"
    /\ ~ccp4.bound
    /\ pc' = "crashed"
    /\ exc' = "UnboundLocalError"
    /\ UNCHANGED <<inputs, eventMaps, outputs, pandda, event_map_files, cur, ccp4,
                   log, writes, results>>

\* Line 68: the file is overwritten; the call returns and the loop moves on.
WriteMap ==
    /\ pc = "write"
    /\ LET i == event_map_files[cur][2]
       IN  /\ eventMaps' = [eventMaps EXCEPT ![i].file = ccp4.grid]
           /\ writes' = Append(writes, i)
    /\ ccp4' = Unbound
    /\ cur' = NextFile(cur)
    /\ pc' = "open"
    /\ UNCHANGED <<inputs, outputs, pandda, event_map_files, log, results, exc>>

\* Line 141: the loop over the files has ended.
FinishUpdate ==
    /\ pc = "open"
    /\ cur > Len(event_map_files)
    /\ pc' = "done"
    /\ UNCHANGED <<inputs, eventMaps, outputs, pandda, event_map_files, cur, ccp4,
                   log, writes, results, exc>>

\* recalculate_event_maps, lines 145-146: the table is read.
LoadTable ==
    /\ pc = "recalculate_event_maps"
    /\ cur' = 1
    /\ pc' = "rows"
    /\ UNCHANGED <<inputs, eventMaps, outputs, pandda, event_map_files, ccp4, log,
                   writes, results, exc>>

\* One pass of the loop of lines 148-154: recalculate_event_map on row cur. An
\* exception it raises is caught nowhere and ends the process.
RecalculateRow ==
    /\ pc = "rows"
    /\ cur <= Len(table)
    /\ LET row == table[cur]
           r == recalculate_event_map(datasets[row.dtag], row.dtag, row.bdc,
                                      row.event_idx)
       IN  /\ results' = Append(results, [row |-> cur, ok |-> r.ok, path |-> r.path])
           /\ IF r.ok
              THEN /\ outputs' = [p \in DOMAIN outputs \cup {r.path} |->
                                     IF p = r.path THEN r.file ELSE outputs[p]]
                   /\ cur' = NextRow(cur)
                   /\ UNCHANGED <<pc, exc>>
              ELSE /\ pc' = "crashed"
                   /\ exc' = r.exc
                   /\ UNCHANGED <<outputs, cur>>
    /\ UNCHANGED <<inputs, eventMaps, pandda, event_map_files, ccp4, log, writes>>

\* The loop over the rows has ended.
FinishRecalculate ==
    /\ pc = "rows"
    /\ cur > Len(table)
    /\ pc' = "done"
    /\ UNCHANGED <<inputs, eventMaps, outputs, pandda, event_map_files, cur, ccp4,
                   log, writes, results, exc>>

Next ==
    \/ Dispatch
    \/ Enumerate
    \/ OpenMap
    \/ TransformMap
    \/ TransformUnbound
    \/ WriteMap
    \/ FinishUpdate
    \/ LoadTable
    \/ RecalculateRow
    \/ FinishRecalculate

Spec == Init /\ [][Next]_vars

-----------------------------------------------------------------------------
(* Vocabulary of the properties *)

Range(q) == { q[j] : j \in 1 .. Len(q) }

Terminated == pc \in {"done", "crashed"}

\* The entries the glob pattern selects, by index.
EventEntries == { i \in 1 .. Len(initialMaps) : MatchesEventGlob(initialMaps[i].name) }

\* How often file i was written.
TimesWritten(i) == Cardinality({ j \in 1 .. Len(writes) : writes[j] = i })

\* File i is named, under some spelling, by the configuration's excluded_files.
ConfiguredExcluded(i) ==
    Resolve(GlobPath(i)) \in { Resolve(p) : p \in configExcluded }

\* The results whose recalculation wrote a file.
Written == { k \in 1 .. Len(results) : results[k].ok }

RowOf(k) == table[results[k].row]

\* The value of a map at index i after setup(0.0).
Filled(f, i) == IF i \in DOMAIN f.data THEN f.data[i] ELSE Zero

-----------------------------------------------------------------------------
(* Properties *)

\* C1: when opening an event map fails, the file is neither written nor
\* changed, and the loop goes on: at the end of a PanDDA 1 run every readable
\* enumerated file has been normalised.
C1_OpenFailureIsSkipped ==
    /\ \A p \in Range(log) :
          /\ p[2] \notin Range(writes)
          /\ eventMaps[p[2]].file = initialMaps[p[2]].file
    /\ (Terminated /\ pandda = "pandda_1") =>
          \A p \in Range(event_map_files) :
              CanRead(initialMaps[p[2]].file) => p[2] \in Range(writes)

\* C2: a failure on one row does not end the batch: at the end of a PanDDA 2
\* run every row of the table has been handed to recalculate_event_map.
C2_RowFailureDoesNotAbort ==
    (Terminated /\ pandda = "pandda_2") => Len(results) = Len(table)

\* C3: a recalculation with bdc = 0 fails and writes no file (stated for the
\* rows whose two maps are readable and of equal dimensions, where nothing but
\* the zero can make it fail).
C3_ZeroBdcIsRejected ==
    \A k \in 1 .. Len(results) :
        LET d == datasets[RowOf(k).dtag]
        IN  (RowOf(k).bdc = 0 /\ CanRead(d.mean) /\ CanRead(d.xmap)
                /\ d.mean.shape = d.xmap.shape)
                => ~results[k].ok

\* C4: a recalculation on a mean map and an observed map of different
\* dimensions fails and writes no file (stated for the rows with a non-zero
\* bdc, where nothing but the dimensions can make it fail).
C4_DimensionMismatchFails ==
    \A k \in 1 .. Len(results) :
        LET d == datasets[RowOf(k).dtag]
        IN  (RowOf(k).bdc # 0 /\ CanRead(d.mean) /\ CanRead(d.xmap)
                /\ d.mean.shape # d.xmap.shape)
                => ~results[k].ok

\* C5: an event map whose resolved path the configuration excludes is not
\* enumerated, not written, and keeps its contents.
C5_ExcludedFileUntouched ==
    \A i \in 1 .. Len(eventMaps) :
        ConfiguredExcluded(i) =>
            /\ GlobPath(i) \notin Range(event_map_files)
            /\ i \notin Range(writes)
            /\ eventMaps[i].file = initialMaps[i].file

\* C6: a file update_event_map_spacegroup has written is in P 1 and holds no
\* non-finite value: what was NaN, +inf, -inf or not stored is 0.0 and what was
\* finite is kept.
C6_NoNonFiniteAfterUpdate ==
    \A i \in Range(writes) :
        LET new == eventMaps[i].file
            old == initialMaps[i].file
        IN  /\ new.sg = P1
            /\ DOMAIN new.data = Indices(old.shape)
            /\ \A x \in Indices(old.shape) :
                  /\ isfinite(new.data[x])
                  /\ new.data[x] =
                        IF x \in DOMAIN old.data /\ isfinite(old.data[x])
                        THEN old.data[x] ELSE Zero

\* A row whose recalculation is in the scope of C7: maps of equal dimensions
\* and a bdc in (0, 1].
Matched(k) ==
    LET d == datasets[RowOf(k).dtag]
    IN  /\ d.mean.shape = d.xmap.shape
        /\ RowOf(k).bdc > 0
        /\ RowOf(k).bdc <= 1000

\* v = (x - (1 - t/1000) * m) / (t/1000) on rationals, without a division:
\* v * t * xd * md = 1000 * xn * md - (1000 - t) * mn * xd.
SatisfiesFormula(v, x, m, t) ==
    /\ isfinite(v)
    /\ v.n * t * x.d * m.d = v.d * (1000 * x.n * m.d - (1000 - t) * m.n * x.d)

\* C7: for maps of equal dimensions and bdc in (0, 1], the written grid has the
\* observed map's dimensions and unit cell, spacegroup P 1, and at every index
\* the value (xmap - (1 - bdc) * mean) / bdc.
C7_EventMapFormula ==
    \A k \in Written :
        Matched(k) =>
            LET d == datasets[RowOf(k).dtag]
                f == outputs[results[k].path]
            IN  /\ f.shape = d.xmap.shape
                /\ f.cell = d.xmap.cell
                /\ f.sg = P1
                /\ DOMAIN f.data = Indices(d.xmap.shape)
                /\ \A i \in Indices(d.xmap.shape) :
                      SatisfiesFormula(f.data[i], Filled(d.xmap, i), Filled(d.mean, i),
                                       RowOf(k).bdc)

\* A matched row with bdc < 1 was recalculated from an observed map that stores
\* only part of the cell, on a mean map with another unit cell.
C7_Witness ==
    \E k \in Written :
        LET d == datasets[RowOf(k).dtag]
        IN  /\ Matched(k)
            /\ RowOf(k).bdc < 1000
            /\ DOMAIN d.xmap.data # Indices(d.xmap.shape)
            /\ d.mean.cell # d.xmap.cell
            /\ \E i \in Indices(d.xmap.shape) : outputs[results[k].path].data[i] # Zero

\* The decimal literal Python prints for each 1-BDC value of the tables.
PyRepr(t) ==
    CASE t = 0 -> "0.0"
      [] t = 300 -> "0.3"
      [] t = 304 -> "0.304"
      [] t = 1000 -> "1.0"

NameWith(k, b) ==
    "processed_datasets/" \o RowOf(k).dtag \o "/" \o RowOf(k).dtag \o "-event_"
        \o ToString(RowOf(k).event_idx) \o "_1-BDC_" \o b \o "_map.native.ccp4"

SameEvent(j, k) ==
    /\ RowOf(j).dtag = RowOf(k).dtag
    /\ RowOf(j).event_idx = RowOf(k).event_idx

UpdatePositions == {"update_event_map_spacegroups", "open", "transform", "write"}
RecalculatePositions == {"recalculate_event_maps", "rows"}

\* C9: dispatch runs the header update exactly when pandda.done exists and the
\* recalculation exactly when it does not, never both, and never raises for an
\* unrecognised type.
C9_ExactlyOnePipeline ==
    /\ pc # "dispatch" => pandda = (IF marker THEN "pandda_1" ELSE "pandda_2")
    /\ pc \in UpdatePositions => marker
    /\ pc \in RecalculatePositions => ~marker
    /\ exc # "Exception"
    /\ (event_map_files # <<>> \/ writes # <<>> \/ log # <<>>) =>
          (marker /\ results = <<>> /\ DOMAIN outputs = {})
    /\ (results # <<>> \/ DOMAIN outputs # {}) =>
          (~marker /\ event_map_files = <<>> /\ writes = <<>> /\ log = <<>>
             /\ eventMaps = initialMaps)

\* A run with pandda.done has ended after updating files, with no recalculation.
C9_Witness ==
    /\ pc = "done"
    /\ marker
    /\ writes # <<>>
    /\ results = <<>>
    /\ table # <<>>

\* Every file the glob pattern selects is readable.
AllReadable == \A i \in EventEntries : CanRead(initialMaps[i].file)

\* The files are handled one at a time, in order: while file cur is open, the
\* ones before it have been written and no other.
OneAtATime ==
    pc \in {"open", "transform", "write"} =>
        /\ cur >= 1
        /\ Len(writes) = cur - 1
        /\ \A j \in 1 .. Len(writes) : writes[j] = event_map_files[j][2]
        /\ (pc = "open" => ~ccp4.bound)

EachWrittenOnce ==
    (pc = "done" /\ marker /\ AllReadable) =>
        \A i \in 1 .. Len(initialMaps) :
            TimesWritten(i) = (IF i \in EventEntries THEN 1 ELSE 0)

\* The run cannot stop short of the end: it has not crashed, a step is enabled
\* until it is done, and the loop position stays within the enumerated list.
RunsToTheEnd ==
    (marker /\ AllReadable) =>
        /\ pc # "crashed"
        /\ pc = "done" \/ ENABLED Next
        /\ cur <= Len(event_map_files) + 1

\* C10: in a PanDDA 1 run whose enumerated files are all readable, the run ends
\* with each enumerated file written exactly once, and the files are handled
\* strictly one at a time.
C10_SequentialAndComplete ==
    /\ OneAtATime
    /\ EachWrittenOnce
    /\ RunsToTheEnd

\* A run over two readable event maps has ended.
C10_Witness ==
    /\ pc = "done"
    /\ marker
    /\ AllReadable
    /\ Len(writes) >= 2

====
